---- MODULE Spec2Model ----
(***************************************************************************)
(* ForecastX (src/src/App.jsx): the request-mediation layer of the weather *)
(* app.  Two caches (geocode, weather) loaded from and persisted to        *)
(* localStorage, a per-coordinate throttle ledger (requestLog) and two     *)
(* asynchronous operations, fetchCoordsByName and fetchWeatherByCoords,    *)
(* each with one abortable network call.                                   *)
(*                                                                         *)
(* Time is in milliseconds, as Date.now() gives it.  JavaScript values     *)
(* that may be undefined or null are tagged records (Undef, Null, Num).    *)
(* A Map is the sequence of its [key, value] pairs in insertion order.     *)
(*                                                                         *)
(* Four specifications: Spec, a session of a caller of the two operations; *)
(* StorageSpec, loadCacheFromStorage and persistCache on caches of up to   *)
(* MaxKeys entries; CodeSpec, mapWeatherCode on its own; UiSpec, the App   *)
(* component (debounced effect and search form) over the two operations.   *)
(***************************************************************************)
EXTENDS Integers, Sequences, FiniteSets, Bags, TLC

VARIABLES
    now,           \* the wall clock, what Date.now() returns
    ticks,         \* how many times the clock has advanced (bounds the run)
    weatherCache,  \* Map: "lat,lon" -> {data, ts}
    requestLog,    \* Map: "lat,lon" -> time of the last successful fetch
    geocodeCache,  \* Map: lowercased trimmed query -> {data, ts}
    storage,       \* localStorage: record name -> raw stored text
    calls,         \* the bag of asynchronous calls in flight
    focus,         \* which of the two functions this session's caller uses
    ev,            \* what the last step did (the observable outcome)
    ui             \* the state of the App component, when it is mounted

vars == <<now, ticks, weatherCache, requestLog, geocodeCache, storage, calls, focus, ev, ui>>

----------------------------------------------------------------------------
(* Program constants *)

CACHE_TTL_MS == 10 * 60 * 1000
MIN_REQUEST_INTERVAL_MS == 15 * 1000
ABORT_TIMEOUT_MS == 8000
MAX_ENTRIES == 12
STORAGE_VERSION == "v1"

(* Bounds of the model *)

MaxTicks == 2      \* clock advances per run
MaxCalls == 2      \* asynchronous calls in flight at once
MaxKeys == 14      \* entries a cache may hold when it is saved
MaxCode == 105     \* the largest weather code looked up

\* The amounts by which the clock may advance in one step.
Steps == {2500, 597500}

\* Date.now() when the page is loaded.
Now0 == 2 * CACHE_TTL_MS + 100000

----------------------------------------------------------------------------
(* JavaScript values *)

Undef == [t |-> "undefined"]
Null == [t |-> "null"]
Num(n) == [t |-> "num", v |-> n]
Str(s) == [t |-> "str", v |-> s]

\* o.f for an object o (a record): undefined when the property is missing.
Prop(o, f) == IF f \in DOMAIN o THEN o[f] ELSE Undef

\* {} : an object without properties
EmptyObject == <<>>

\* `${x}` for a string or a missing value
Text(x) == IF x.t = "str" THEN x.v ELSE x.t

\* x ? ... : ... for a string or a missing value
Truthy(x) == x.t = "str" /\ x.v # ""

\* a ?? b
Coalesce(a, b) == IF a = Undef \/ a = Null THEN b ELSE a

\* Math.ceil(n / d) for d > 0
CeilDiv(n, d) == IF n % d = 0 THEN n \div d ELSE (n \div d) + 1

----------------------------------------------------------------------------
(* Map: the sequence of <<key, value>> pairs in insertion order *)

MapHas(m, k) == \E i \in DOMAIN m : m[i][1] = k

MapIndex(m, k) == CHOOSE i \in DOMAIN m : m[i][1] = k

\* m.get(k): undefined when absent
MapGet(m, k) == IF MapHas(m, k) THEN m[MapIndex(m, k)][2] ELSE Undef

\* m.set(k, v): an existing key keeps its position
MapSet(m, k, v) ==
    IF MapHas(m, k)
    THEN [m EXCEPT ![MapIndex(m, k)] = <<k, v>>]
    ELSE Append(m, <<k, v>>)

MapKeys(m) == {m[i][1] : i \in DOMAIN m}

----------------------------------------------------------------------------
(* localStorage and JSON *)

\* What localStorage.getItem gives: null, a text, or an exception when the
\* medium is unavailable.  A text is the empty string, something JSON.parse
\* rejects, or the JSON value it parses to.
RawNull == [kind |-> "null"]
RawEmpty == [kind |-> "empty"]
RawGarbage == [kind |-> "garbage"]
RawJson(value) == [kind |-> "json", value |-> value]
GetItemThrows == [kind |-> "throws"]

JArr(items) == [t |-> "array", items |-> items]
JObj == [t |-> "object"]

\* JSON.stringify followed by JSON.parse on a value: a property whose value
\* is undefined is dropped from its object; tagged primitives are kept.
RECURSIVE JsonValue(_)
JsonValue(x) ==
    IF "t" \in DOMAIN x
    THEN x
    ELSE [f \in {g \in DOMAIN x : x[g] # Undef} |-> JsonValue(x[f])]

\* A cache entry {data, ts} as JSON.
JsonEntry(v) ==
    IF "data" \in DOMAIN v
    THEN [data |-> JsonValue(v.data), ts |-> v.ts]
    ELSE v

\* JSON.stringify(entries): the text stored for a list of [key, entry] pairs.
JsonStringify(entries) ==
    RawJson(JArr([i \in DOMAIN entries |->
                    JArr(<<entries[i][1], JsonEntry(entries[i][2])>>)]))

\* The storage key `${STORAGE_VERSION}:${name}`.
StorageKey(name) == <<STORAGE_VERSION, ":", name>>

\* Variant of KeepOnLoad: an entry of age 2 x TTL is kept.
KeepOnLoadInclusive(v, t) ==
    /\ "ts" \in DOMAIN v
    /\ v.ts # 0
    /\ t - v.ts <= CACHE_TTL_MS * 2

\* v?.ts && Date.now() - v.ts < CACHE_TTL_MS * 2     (App.jsx line 24)
KeepOnLoad(v, t) ==
    /\ "ts" \in DOMAIN v
    /\ v.ts # 0
    /\ t - v.ts < CACHE_TTL_MS * 2

\* An element of the parsed list can be destructured as [k, v].
Iterable(item) == "t" \in DOMAIN item /\ item.t = "array"

ItemKey(item) == IF Len(item.items) >= 1 THEN item.items[1] ELSE Undef
ItemValue(item) == IF Len(item.items) >= 2 THEN item.items[2] ELSE Undef

\* parsed.forEach(([k, v]) => { if (...) map.set(k, v) })
RECURSIVE LoadEntries(_, _, _)
LoadEntries(items, t, map) ==
    IF items = <<>>
    THEN map
    ELSE LET item == Head(items)
             next == IF KeepOnLoad(ItemValue(item), t)
                     THEN MapSet(map, ItemKey(item), ItemValue(item))
                     ELSE map
         IN  LoadEntries(Tail(items), t, next)

\* Variant of loadCacheFromStorage: an element that cannot be destructured
\* is skipped instead of failing the whole load.
loadCacheSkippingBadItems(got, t) ==
    IF got.kind \in {"throws", "null", "empty", "garbage"} THEN <<>>
    ELSE IF got.value.t # "array" THEN <<>>
    ELSE LoadEntries(SelectSeq(got.value.items, Iterable), t, <<>>)

\* loadCacheFromStorage(name), given what getItem returned and Date.now().
\* Every exception (getItem, JSON.parse, destructuring) gives an empty Map.
loadCacheFromStorage(got, t) ==
    IF got.kind \in {"throws", "null", "empty", "garbage"}
    THEN <<>>
    ELSE IF got.value.t # "array"
    THEN <<>>
    ELSE IF \E i \in DOMAIN got.value.items : ~Iterable(got.value.items[i])
    THEN <<>>
    ELSE LoadEntries(got.value.items, t, <<>>)

\* (b[1]?.ts ?? 0) of a Map entry
EntryTs(e) == IF "ts" \in DOMAIN e[2] THEN e[2].ts ELSE 0

\* Insert e into a list sorted by descending ts, after every element that
\* does not sort behind it (Array.prototype.sort is stable).
RECURSIVE InsertDesc(_, _)
InsertDesc(sorted, e) ==
    IF sorted = <<>>
    THEN <<e>>
    ELSE IF EntryTs(Head(sorted)) >= EntryTs(e)
    THEN <<Head(sorted)>> \o InsertDesc(Tail(sorted), e)
    ELSE <<e>> \o sorted

RECURSIVE SortByTsDesc(_)
SortByTsDesc(entries) ==
    IF entries = <<>>
    THEN <<>>
    ELSE InsertDesc(SortByTsDesc(SubSeq(entries, 1, Len(entries) - 1)),
                    entries[Len(entries)])

Slice(s, n) == SubSeq(s, 1, IF Len(s) < n THEN Len(s) ELSE n)

\* Variant of PersistedEntries: the entries are not sorted before the cut.
PersistedEntriesUnsorted(map, maxEntries) == Slice(map, maxEntries)

\* The list persistCache serialises: sorted by ts descending, first maxEntries.
PersistedEntries(map, maxEntries) == Slice(SortByTsDesc(map), maxEntries)

\* Variant of SetItemSurfaces: no try/catch around setItem.
SetItemSurfacesUncaught(writeOk) == ~writeOk

\* Whether the exception of a failing setItem leaves persistCache: the
\* catch of lines 41-43 swallows it.
SetItemSurfaces(writeOk) == FALSE

\* The exception setItem throws when the quota is exceeded.
MsgQuota == "QuotaExceededError"

\* persistCache(map, name): localStorage after the call.  writeOk is whether
\* setItem succeeded; its exception is swallowed and storage is unchanged.
persistCache(store, map, name, writeOk) ==
    IF writeOk
    THEN [store EXCEPT ![StorageKey(name)] = JsonStringify(PersistedEntries(map, MAX_ENTRIES))]
    ELSE store

----------------------------------------------------------------------------
(* Weather codes *)

WeatherCodeTable ==
    (0 :> "Clear sky") @@ (1 :> "Mainly clear") @@ (2 :> "Partly cloudy") @@
    (3 :> "Overcast") @@ (45 :> "Fog") @@ (48 :> "Depositing rime fog") @@
    (51 :> "Light drizzle") @@ (53 :> "Moderate drizzle") @@
    (55 :> "Dense drizzle") @@ (56 :> "Light freezing drizzle") @@
    (57 :> "Dense freezing drizzle") @@ (61 :> "Slight rain") @@
    (63 :> "Moderate rain") @@ (65 :> "Heavy rain") @@
    (66 :> "Light freezing rain") @@ (67 :> "Heavy freezing rain") @@
    (71 :> "Slight snow") @@ (73 :> "Moderate snow") @@ (75 :> "Heavy snow") @@
    (77 :> "Snow grains") @@ (80 :> "Slight rain showers") @@
    (81 :> "Moderate rain showers") @@ (82 :> "Violent rain showers") @@
    (85 :> "Slight snow showers") @@ (86 :> "Heavy snow showers") @@
    (95 :> "Thunderstorm") @@ (96 :> "Thunderstorm with slight hail") @@
    (99 :> "Thunderstorm with heavy hail")

\* Variant of mapWeatherCode: a falsy code is taken for a missing one.
mapWeatherCodeIfTruthy(code) ==
    IF code = 0 THEN "-"
    ELSE IF code \in DOMAIN WeatherCodeTable THEN WeatherCodeTable[code] ELSE "-"

\* table[code] ?? "-" for an integer code
mapWeatherCode(code) ==
    IF code \in DOMAIN WeatherCodeTable THEN WeatherCodeTable[code] ELSE "-"

\* mapWeatherCode applied to a JavaScript value (undefined has no entry)
DescribeCode(x) == IF x.t = "num" THEN mapWeatherCode(x.v) ELSE "-"

----------------------------------------------------------------------------
(* Inputs: coordinates, queries and what the upstream may answer *)

\* Coordinates in hundredths of a degree; the first is initialCoords (Berlin).
Coords == {<<5252, 1341>>}

\* The cache key `${lat},${lon}`
CoordKey(lat, lon) == <<lat, lon>>

\* Typed queries: empty, blank, a place name, and the same name in another
\* case with spaces around it.  A string is the sequence of its characters.
Queries == {<<>>, <<" ">>, <<"p">>, <<" ", "P", " ">>}

\* name.trim()
RECURSIVE TrimStart(_)
TrimStart(q) == IF q # <<>> /\ Head(q) = " " THEN TrimStart(Tail(q)) ELSE q

RECURSIVE TrimEnd(_)
TrimEnd(q) ==
    IF q # <<>> /\ q[Len(q)] = " " THEN TrimEnd(SubSeq(q, 1, Len(q) - 1)) ELSE q

Trim(q) == TrimEnd(TrimStart(q))

\* Variant of ToLowerCase: the key keeps the case of the query.
KeepCase(q) == q

\* trimmed.toLowerCase()
LowerChar(c) == IF c = "P" THEN "p" ELSE c
ToLowerCase(q) == [i \in DOMAIN q |-> LowerChar(q[i])]

\* Bodies of the forecast endpoint: with and without current_weather.
WeatherPayloads == {
    [latitude |-> Num(5252), longitude |-> Num(1342),
     current_weather |-> [temperature |-> Num(12), windspeed |-> Num(9),
                          winddirection |-> Num(180), weathercode |-> Num(95),
                          time |-> Str("2024-01-01T12:00")]],
    [latitude |-> Num(5252), longitude |-> Num(1342)] }

\* Bodies of the geocoding endpoint: no match, and one match with and
\* without admin1.
GeocodePayloads == {
    [results |-> <<>>],
    [results |-> <<[latitude |-> Num(4885), longitude |-> Num(235),
                    name |-> Str("Paris"), admin1 |-> Str("Ile-de-France"),
                    country_code |-> Str("FR")]>>],
    [results |-> <<[latitude |-> Num(5252), longitude |-> Num(1341),
                    name |-> Str("Berlin"), country_code |-> Str("DE")]>>] }

\* data.hourly?.relativehumidity_2m?.[0]
FirstHumidity(data) ==
    LET series == Prop(Coalesce(Prop(data, "hourly"), EmptyObject), "relativehumidity_2m")
    IN  IF series = Undef \/ series = Null \/ series = <<>> THEN Undef ELSE series[1]

\* Lines 144-154: the normalized weather reading.
NormalizeWeather(data) ==
    LET cw == IF Prop(data, "current_weather") = Undef
              THEN EmptyObject
              ELSE data.current_weather
    IN  [location |-> [lat |-> Prop(data, "latitude"), lon |-> Prop(data, "longitude")],
         temp |-> Prop(cw, "temperature"),
         windspeed |-> Prop(cw, "windspeed"),
         winddirection |-> Prop(cw, "winddirection"),
         weathercode |-> Prop(cw, "weathercode"),
         time |-> Prop(cw, "time"),
         humidity |-> Coalesce(FirstHumidity(data), Null),
         description |-> Str(DescribeCode(Prop(cw, "weathercode")))]

\* data.results?.[0]
FirstResult(data) ==
    IF "results" \in DOMAIN data /\ Len(data.results) >= 1
    THEN data.results[1]
    ELSE Undef

\* Line 99: `${first.name}${first.admin1 ? `, ${first.admin1}` : ""}, ${first.country_code}`
GeocodeLabel(first) ==
    <<Text(Prop(first, "name"))>>
    \o (IF Truthy(Prop(first, "admin1"))
        THEN <<", ", Text(Prop(first, "admin1"))>>
        ELSE <<>>)
    \o <<", ", Text(Prop(first, "country_code"))>>

\* Lines 96-100
NormalizeGeocode(first) ==
    [lat |-> Prop(first, "latitude"),
     lon |-> Prop(first, "longitude"),
     label |-> Str(GeocodeLabel(first))]

----------------------------------------------------------------------------
(* Error messages, and the kinds of the error taxonomy they stand for *)

MsgEmptyQuery == "Enter a city or address to search."
MsgGeoTimeout == "Geocoding timed out. Please try again."
MsgGeoNetwork == "Network error while searching for that place."
MsgGeoUpstream == "Unable to search for that place."
MsgGeoNoMatch == "No matches found. Try another place or add more detail."
MsgRateLimited == "Please wait ~${waitSeconds}s before retrying this location."
MsgWeatherTimeout == "Request timed out. Please try again."
MsgWeatherNetwork == "Network error while fetching weather."
MsgWeatherUpstream == "Unable to fetch weather"

\* Exceptions the code does not wrap: what res.json() rejects with.
RawErrors == {"SyntaxError", "TypeError"}

ErrorKind(msg) ==
    CASE msg = MsgEmptyQuery -> "InvalidInput"
      [] msg \in {MsgGeoTimeout, MsgWeatherTimeout} -> "Timeout"
      [] msg \in {MsgGeoNetwork, MsgWeatherNetwork} -> "NetworkError"
      [] msg \in {MsgGeoUpstream, MsgWeatherUpstream} -> "UpstreamError"
      [] msg = MsgGeoNoMatch -> "NotFound"
      [] msg = MsgRateLimited -> "RateLimited"
      [] OTHER -> "Untyped"

TimeoutMsg(op) == IF op = "resolve" THEN MsgGeoTimeout ELSE MsgWeatherTimeout
NetworkMsg(op) == IF op = "resolve" THEN MsgGeoNetwork ELSE MsgWeatherNetwork
UpstreamMsg(op) == IF op = "resolve" THEN MsgGeoUpstream ELSE MsgWeatherUpstream

----------------------------------------------------------------------------
(* State *)

\* A call suspended at `await fetch(...)`, its abort timer armed.
AwaitingFetch(op, key, t) ==
    [pc |-> "fetch", op |-> op, key |-> key, deadline |-> t + ABORT_TIMEOUT_MS,
     armed |-> TRUE]

\* The call after the response arrived: clearTimeout (line 85 / 138), then
\* suspended again at `await res.json()`.
AwaitingJson(call) == [call EXCEPT !.pc = "json", !.deadline = 0, !.armed = FALSE]

InFlight == BagToSet(calls)

\* Variant of Started: a call joins the request already in flight for its key.
StartedOnce(call) ==
    IF \E c \in InFlight : c.op = call.op /\ c.key = call.key
    THEN calls
    ELSE calls (+) SetToBag({call})

Started(call) == calls (+) SetToBag({call})
Settled(call) == calls (-) SetToBag({call})

\* What a step did.  type: "init", "tick", "restart", "send" (a call sent its
\* request and is suspended), "await" (a call got its response and is
\* suspended again) or "return" (a call settled: outcome "value" or "error").
\* arg is the argument of the call where the step is the call itself; net
\* is whether the call has sent a network request.
Event(type, op, arg, key, outcome, value, error, wait, net) ==
    [type |-> type, op |-> op, arg |-> arg, key |-> key, outcome |-> outcome,
     value |-> value, error |-> error, wait |-> wait, net |-> net]

Silent(type) == Event(type, "none", <<>>, <<>>, "none", Undef, "", 0, FALSE)
Sent(op, arg, key) == Event("send", op, arg, key, "pending", Undef, "", 0, TRUE)
Pending(op, key) == Event("await", op, <<>>, key, "pending", Undef, "", 0, TRUE)
Returned(op, key, value) == Event("return", op, <<>>, key, "value", value, "", 0, TRUE)
Thrown(op, key, error) == Event("return", op, <<>>, key, "error", Undef, error, 0, TRUE)
ReturnedAtOnce(op, arg, key, value) ==
    Event("return", op, arg, key, "value", value, "", 0, FALSE)
ThrownAtOnce(op, arg, key, error, wait) ==
    Event("return", op, arg, key, "error", Undef, error, wait, FALSE)

\* Variant of Fresh: the throttle interval taken for the TTL.
FreshWithinInterval(cached, t) == cached # Undef /\ t - cached.ts < MIN_REQUEST_INTERVAL_MS

\* Variant of Fresh: an entry of age TTL is still served.
FreshInclusive(cached, t) == cached # Undef /\ t - cached.ts <= CACHE_TTL_MS

\* cached && Date.now() - cached.ts < CACHE_TTL_MS     (lines 63 and 109)
Fresh(cached, t) == cached # Undef /\ t - cached.ts < CACHE_TTL_MS

\* What an earlier run may have left in localStorage under one name.
StoredEntry(key, data, age) == <<key, [data |-> JsonValue(data), ts |-> Now0 - age]>>

StoredAges == {CACHE_TTL_MS - 2500, CACHE_TTL_MS, 2 * CACHE_TTL_MS - 2500, 2 * CACHE_TTL_MS}

WeatherReading == CHOOSE p \in WeatherPayloads : Prop(p, "current_weather") # Undef

SomeWeather == NormalizeWeather(CHOOSE p \in WeatherPayloads : Prop(p, "current_weather") # Undef)
SomeGeocode == NormalizeGeocode(FirstResult(CHOOSE p \in GeocodePayloads :
                                   /\ FirstResult(p) # Undef
                                   /\ Prop(FirstResult(p), "admin1") = Undef))

InitWeatherStorage ==
    {RawNull, RawGarbage}
    \cup {JsonStringify(<<StoredEntry(CoordKey(5252, 1341), SomeWeather, a)>>) : a \in StoredAges}

InitGeocodeStorage ==
    {RawNull}
    \cup {JsonStringify(<<StoredEntry(<<"p">>, SomeGeocode, a)>>) :
             a \in {CACHE_TTL_MS - 2500, 2 * CACHE_TTL_MS}}

\* loadCacheFromStorage(name) as the page runs it at time t; readable is
\* whether localStorage.getItem works or throws.
Loaded(store, name, t, readable) ==
    loadCacheFromStorage(IF readable THEN store[StorageKey(name)] ELSE GetItemThrows, t)

\* The component is not mounted: the caller uses the two functions directly.
NoUi == [mounted |-> FALSE]

\* Lines 9-11: the module-level state when the page is loaded.  The two
\* functions share no state, so a session exercises one of them (focus),
\* and finds what an earlier session of the same kind persisted.
Init ==
    /\ now = Now0
    /\ ticks = 0
    /\ focus \in {"weather", "geocode"}
    /\ \E w \in InitWeatherStorage, g \in InitGeocodeStorage :
          /\ focus = "weather" => g = RawNull
          /\ focus = "geocode" => w = RawNull
          /\ storage = (StorageKey("weatherCache") :> w) @@ (StorageKey("geocodeCache") :> g)
    /\ \E readable \in BOOLEAN :
          /\ weatherCache = Loaded(storage, "weatherCache", now, readable)
          /\ geocodeCache = Loaded(storage, "geocodeCache", now, readable)
    /\ requestLog = <<>>
    /\ calls = EmptyBag
    /\ ev = Silent("init")
    /\ ui = NoUi

----------------------------------------------------------------------------
(* The environment: time passes, the page is reloaded *)

Tick(d) ==
    /\ ticks < MaxTicks
    /\ now' = now + d
    /\ ticks' = ticks + 1
    /\ ev' = Silent("tick")
    /\ UNCHANGED <<weatherCache, requestLog, geocodeCache, storage, calls, focus>>

\* A reload runs lines 9-11 again: both caches are read back from
\* localStorage, the ledger starts empty and pending calls are gone.
Restart(readable) ==
    /\ weatherCache' = Loaded(storage, "weatherCache", now, readable)
    /\ geocodeCache' = Loaded(storage, "geocodeCache", now, readable)
    /\ requestLog' = <<>>
    /\ calls' = EmptyBag
    /\ ev' = Silent("restart")
    /\ UNCHANGED <<now, ticks, storage, focus>>

----------------------------------------------------------------------------
(* fetchWeatherByCoords(lat, lon), lines 106-159 *)

\* requestLog.get(key) ?? 0
LastRequest(log, key) == IF MapHas(log, key) THEN MapGet(log, key) ELSE 0

\* Variant of WaitSeconds: rounded down.
WaitSecondsFloor(elapsed) == (MIN_REQUEST_INTERVAL_MS - elapsed) \div 1000

\* Math.ceil((MIN_REQUEST_INTERVAL_MS - elapsed) / 1000)
WaitSeconds(elapsed) == CeilDiv(MIN_REQUEST_INTERVAL_MS - elapsed, 1000)

\* Variant of Throttled: the cache TTL taken for the interval.
ThrottledWithinTtl(elapsed) == elapsed < CACHE_TTL_MS

\* The throttle test of line 116.
Throttled(elapsed) == elapsed < MIN_REQUEST_INTERVAL_MS

\* A request can be sent: the model has room for one more pending call, and
\* the clock can still reach its deadline.
CanSend == BagCardinality(calls) < MaxCalls /\ ticks < MaxTicks

\* Variant of WeatherCallPath: the ledger is looked at before the cache.
WeatherCallPathLedgerFirst(cached, elapsed, t) ==
    IF Throttled(elapsed) THEN "throttled"
    ELSE IF Fresh(cached, t) THEN "cache"
    ELSE "network"

\* Lines 108-119: which way the call goes.  The cache is looked at first,
\* the ledger only on a miss.
WeatherCallPath(cached, elapsed, t) ==
    IF Fresh(cached, t) THEN "cache"
    ELSE IF Throttled(elapsed) THEN "throttled"
    ELSE "network"

\* Lines 107-130: up to the first await.  A fresh cache entry is returned
\* at once; otherwise the ledger may reject the call; otherwise the request
\* is sent and the call is suspended with its abort timer armed.
FetchWeatherCall(lat, lon) ==
    LET key == CoordKey(lat, lon)
        cached == MapGet(weatherCache, key)
        elapsed == now - LastRequest(requestLog, key)
        path == WeatherCallPath(cached, elapsed, now)
    IN  /\ CASE path = "cache" ->
                /\ ev' = ReturnedAtOnce("fetch", <<lat, lon>>, key, Prop(cached, "data"))
                /\ UNCHANGED calls
             [] path = "throttled" ->
                /\ ev' = ThrownAtOnce("fetch", <<lat, lon>>, key, MsgRateLimited,
                                      WaitSeconds(elapsed))
                /\ UNCHANGED calls
             [] path = "network" ->
                /\ CanSend
                /\ calls' = Started(AwaitingFetch("fetch", key, now))
                /\ ev' = Sent("fetch", <<lat, lon>>, key)
        /\ UNCHANGED <<now, ticks, weatherCache, requestLog, geocodeCache, storage, focus>>

\* Lines 155-158 on the state: write-through, persist, then the ledger.
\* drift is the time that passes between the two Date.now() reads, across
\* the synchronous localStorage write.
WeatherWriteThrough(key, normalized, writeOk, drift) ==
    /\ weatherCache' = MapSet(weatherCache, key, [data |-> normalized, ts |-> now])
    /\ storage' = persistCache(storage, weatherCache', "weatherCache", writeOk)
    /\ now' = now + drift
    /\ requestLog' = IF SetItemSurfaces(writeOk)
                     THEN requestLog
                     ELSE MapSet(requestLog, key, now')

\* Lines 143-158: res.json() gave data.
WeatherBody(call, data, writeOk, drift) ==
    /\ call.pc = "json"
    /\ call.op = "fetch"
    /\ drift = 0 \/ ticks < MaxTicks
    /\ ticks' = IF drift = 0 THEN ticks ELSE ticks + 1
    /\ WeatherWriteThrough(call.key, NormalizeWeather(data), writeOk, drift)
    /\ calls' = Settled(call)
    /\ ev' = IF SetItemSurfaces(writeOk)
             THEN Thrown("fetch", call.key, MsgQuota)
             ELSE Returned("fetch", call.key, NormalizeWeather(data))
    /\ UNCHANGED <<geocodeCache, focus>>

----------------------------------------------------------------------------
(* The network call, the same in both functions (lines 73-90, 126-143) *)

\* The timer of line 74 / 127 fires: controller.abort() rejects the pending
\* fetch with AbortError, which the catch turns into the timeout message.
TimerFires(call) ==
    /\ call.pc = "fetch"
    /\ call.armed
    /\ now >= call.deadline
    /\ calls' = Settled(call)
    /\ ev' = Thrown(call.op, call.key, TimeoutMsg(call.op))
    /\ UNCHANGED <<now, ticks, weatherCache, requestLog, geocodeCache, storage, focus>>

\* Variant of FetchRejects: the failed request is entered in the ledger.
FetchRejectsLogged(call) ==
    /\ call.pc = "fetch"
    /\ calls' = Settled(call)
    /\ ev' = Thrown(call.op, call.key, NetworkMsg(call.op))
    /\ requestLog' = IF call.op = "fetch" THEN MapSet(requestLog, call.key, now) ELSE requestLog
    /\ UNCHANGED <<now, ticks, weatherCache, geocodeCache, storage, focus>>

\* fetch rejects (DNS, connection): the catch clears the timer and throws.
FetchRejects(call) ==
    /\ call.pc = "fetch"
    /\ calls' = Settled(call)
    /\ ev' = Thrown(call.op, call.key, NetworkMsg(call.op))
    /\ UNCHANGED <<now, ticks, weatherCache, requestLog, geocodeCache, storage, focus>>

\* fetch resolves with a response: a response that is not ok throws.
FetchResolves(call, ok) ==
    /\ call.pc = "fetch"
    /\ IF ok
       THEN /\ calls' = Settled(call) (+) SetToBag({AwaitingJson(call)})
            /\ ev' = Pending(call.op, call.key)
       ELSE /\ calls' = Settled(call)
            /\ ev' = Thrown(call.op, call.key, UpstreamMsg(call.op))
    /\ UNCHANGED <<now, ticks, weatherCache, requestLog, geocodeCache, storage, focus>>

\* res.json() rejects (a body that is no JSON, a connection lost while the
\* body is read): nothing catches it, the exception reaches the caller.
JsonRejects(call, err) ==
    /\ call.pc = "json"
    /\ calls' = Settled(call)
    /\ ev' = Thrown(call.op, call.key, err)
    /\ UNCHANGED <<now, ticks, weatherCache, requestLog, geocodeCache, storage, focus>>

----------------------------------------------------------------------------
(* fetchCoordsByName(name), lines 58-104 *)

\* Variant of CoordsCallPath: the cache is not looked at.
CoordsCallPathNoCache(trimmed, cached, t) ==
    IF trimmed = <<>> THEN "invalid" ELSE "network"

\* Variant of CoordsCallPath: the empty query is not refused.
CoordsCallPathUnchecked(trimmed, cached, t) ==
    IF Fresh(cached, t) THEN "cache" ELSE "network"

\* Lines 59-65: which way the call goes.  The empty query is refused before
\* the cache is looked at.
CoordsCallPath(trimmed, cached, t) ==
    IF trimmed = <<>> THEN "invalid"
    ELSE IF Fresh(cached, t) THEN "cache"
    ELSE "network"

\* Lines 59-77: up to the first await.
FetchCoordsCall(name) ==
    LET trimmed == Trim(name)
        key == ToLowerCase(trimmed)
        cached == MapGet(geocodeCache, key)
        path == CoordsCallPath(trimmed, cached, now)
    IN  /\ CASE path = "invalid" ->
                /\ ev' = ThrownAtOnce("resolve", name, key, MsgEmptyQuery, 0)
                /\ UNCHANGED calls
             [] path = "cache" ->
                /\ ev' = ReturnedAtOnce("resolve", name, key, Prop(cached, "data"))
                /\ UNCHANGED calls
             [] path = "network" ->
                /\ CanSend
                /\ calls' = Started(AwaitingFetch("resolve", key, now))
                /\ ev' = Sent("resolve", name, key)
        /\ UNCHANGED <<now, ticks, weatherCache, requestLog, geocodeCache, storage, focus>>

\* Lines 101-102 on the state.
GeocodeWriteThrough(key, normalized, writeOk) ==
    /\ geocodeCache' = MapSet(geocodeCache, key, [data |-> normalized, ts |-> now])
    /\ storage' = persistCache(storage, geocodeCache', "geocodeCache", writeOk)

\* Lines 90-103: res.json() gave data.  data.results?.[0] missing throws.
GeocodeBody(call, data, writeOk) ==
    /\ call.pc = "json"
    /\ call.op = "resolve"
    /\ calls' = Settled(call)
    /\ IF FirstResult(data) = Undef
       THEN /\ ev' = Thrown("resolve", call.key, MsgGeoNoMatch)
            /\ UNCHANGED <<geocodeCache, storage>>
       ELSE /\ GeocodeWriteThrough(call.key, NormalizeGeocode(FirstResult(data)), writeOk)
            /\ ev' = IF SetItemSurfaces(writeOk)
                     THEN Thrown("resolve", call.key, MsgQuota)
                     ELSE Returned("resolve", call.key, NormalizeGeocode(FirstResult(data)))
    /\ UNCHANGED <<now, ticks, weatherCache, requestLog, focus>>

----------------------------------------------------------------------------

\* A session of a caller that uses the two functions directly.
Next ==
    /\ UNCHANGED ui
    /\ \/ \E d \in Steps : Tick(d)
       \/ \E readable \in BOOLEAN : Restart(readable)
       \/ \E xy \in Coords : focus = "weather" /\ FetchWeatherCall(xy[1], xy[2])
       \/ \E name \in Queries : focus = "geocode" /\ FetchCoordsCall(name)
       \/ \E call \in InFlight : TimerFires(call)
       \/ \E call \in InFlight : FetchRejects(call)
       \/ \E call \in InFlight, ok \in BOOLEAN : FetchResolves(call, ok)
       \/ \E call \in InFlight, err \in RawErrors : JsonRejects(call, err)
       \/ \E call \in InFlight, data \in WeatherPayloads, writeOk \in BOOLEAN,
             drift \in {0} \cup Steps :
             WeatherBody(call, data, writeOk, drift)
       \/ \E call \in InFlight, data \in GeocodePayloads, writeOk \in BOOLEAN :
             GeocodeBody(call, data, writeOk)

Spec == Init /\ [][Next]_vars

----------------------------------------------------------------------------
(* loadCacheFromStorage and persistCache on their own: a cache of up to    *)
(* MaxKeys entries is saved, and read back, over whatever localStorage     *)
(* holds.                                                                  *)

\* How the timestamps of a cache lie with respect to insertion order.
TsPatterns == {"ascending", "descending", "ties", "shuffled"}

\* The age, in seconds, of the i-th inserted of n entries.
AgeSeconds(pattern, i, n) ==
    CASE pattern = "ascending" -> n - i
      [] pattern = "descending" -> i
      [] pattern = "ties" -> i % 3
      [] OTHER -> (i * 5) % MaxKeys

\* weatherCache after n write-throughs for n different coordinates.
FilledCache(n, pattern) ==
    [i \in 1 .. n |->
        <<CoordKey(5200 + i, 1341),
          [data |-> SomeWeather, ts |-> Now0 - 1000 * AgeSeconds(pattern, i, n)]>>]

\* What localStorage may hold under a record name.
StoredRecords ==
    LET good == StoredEntry(CoordKey(5252, 1341), SomeWeather, 2500)
        goodItem == JArr(<<good[1], JsonEntry(good[2])>>)
    IN {RawNull, RawEmpty, RawGarbage,
        RawJson(JObj),
        RawJson(Num(5)),
        RawJson(JArr(<<Num(5)>>)),
        RawJson(JArr(<<goodItem, Null>>)),
        RawJson(JArr(<<JArr(<<CoordKey(5253, 1341), Num(7)>>), goodItem>>)),
        JsonStringify(<<good>>)}

StorageInit ==
    /\ now = Now0
    /\ ticks = 0
    /\ focus = "storage"
    /\ \E n \in 0 .. MaxKeys, pattern \in TsPatterns : weatherCache = FilledCache(n, pattern)
    /\ \E w \in StoredRecords :
          storage = (StorageKey("weatherCache") :> w) @@ (StorageKey("geocodeCache") :> RawNull)
    /\ geocodeCache = <<>>
    /\ requestLog = <<>>
    /\ calls = EmptyBag
    /\ ev = Silent("init")
    /\ ui = NoUi

\* persistCache(weatherCache, "weatherCache"), line 156.
SaveCache(writeOk) ==
    /\ storage' = persistCache(storage, weatherCache, "weatherCache", writeOk)
    /\ ev' = Silent(IF writeOk THEN "save" ELSE "savefail")
    /\ UNCHANGED <<now, ticks, weatherCache, requestLog, geocodeCache, calls, focus, ui>>

\* loadCacheFromStorage("weatherCache"), line 9.
LoadCache(readable) ==
    /\ weatherCache' = Loaded(storage, "weatherCache", now, readable)
    /\ ev' = Silent(IF readable THEN "load" ELSE "loadfail")
    /\ UNCHANGED <<now, ticks, requestLog, geocodeCache, storage, calls, focus, ui>>

StorageNext ==
    \/ \E writeOk \in BOOLEAN : SaveCache(writeOk)
    \/ \E readable \in BOOLEAN : LoadCache(readable)

StorageSpec == StorageInit /\ [][StorageNext]_vars

----------------------------------------------------------------------------
(* mapWeatherCode on its own: the code of a reading is looked up while the *)
(* caches and the ledger hold an entry.                                    *)

\* The codes looked up: the table's range and some on either side of it.
Codes == (0 - 5) .. MaxCode

Asked(code) == Event("ask", "translate", <<code>>, <<>>, "pending", Undef, "", 0, FALSE)

Answered(code, label) ==
    Event("return", "translate", <<code>>, <<>>, "value", Str(label), "", 0, FALSE)

CodeInit ==
    /\ now = Now0
    /\ ticks = 0
    /\ focus = "codes"
    /\ weatherCache = FilledCache(1, "ascending")
    /\ requestLog = <<<<CoordKey(5201, 1341), Now0>>>>
    /\ geocodeCache = <<>>
    /\ storage = (StorageKey("weatherCache") :> RawNull) @@ (StorageKey("geocodeCache") :> RawNull)
    /\ calls = EmptyBag
    /\ \E code \in Codes : ev = Asked(code)
    /\ ui = NoUi

\* A reading with another code arrives (line 149, current.weathercode).
AskCode(code) ==
    /\ ev.type = "return"
    /\ ev' = Asked(code)
    /\ UNCHANGED <<now, ticks, weatherCache, requestLog, geocodeCache, storage, calls, focus, ui>>

\* mapWeatherCode(code)
Translate ==
    /\ ev.type = "ask"
    /\ ev' = Answered(ev.arg[1], mapWeatherCode(ev.arg[1]))
    /\ UNCHANGED <<now, ticks, weatherCache, requestLog, geocodeCache, storage, calls, focus, ui>>

CodeNext ==
    \/ \E code \in Codes : AskCode(code)
    \/ Translate

CodeSpec == CodeInit /\ [][CodeNext]_vars

----------------------------------------------------------------------------
(* The App component, lines 195-280: its state, the effect that fetches    *)
(* the weather 450 ms after the coordinates or the label change, and the   *)
(* submit handler of the search form.                                      *)

DEBOUNCE_MS == 450

\* The amounts by which the clock may advance while the page is used.
UiSteps == {DEBOUNCE_MS, ABORT_TIMEOUT_MS}

\* What the status line shows: a text, and the label it names if any.
Message(text, about) == [text |-> text, about |-> about]

MsgStart == Message("Search a city or address to get started.", Undef)
MsgInvalidPlace == Message("Enter a valid place.", Undef)
MsgFetching == Message("Fetching weather...", Undef)
MsgSearching == Message("Searching location...", Undef)
MsgShowing(label) == Message("Showing weather for ${locationLabel}.", label)

InitialLabel == Str(<<"Berlin", ", ", "DE">>)

\* Number.isNaN(x)
IsNaN(x) == x.t = "nan"

NoHandle == [none |-> TRUE]

\* Lines 196-202: the state of the first render, before its effect.  The
\* fields timers, handle, fetching and submits are the pending callbacks:
\* the debounce timers, the handle the last effect's cleanup will clear,
\* the effect callbacks awaiting fetchWeatherByCoords and the submit
\* handlers awaiting fetchCoordsByName.  shownFor and since record, for the
\* weather on display, the coordinates it was fetched for, and the time of
\* the last effect run.
FirstRender ==
    [mounted |-> TRUE,
     lat |-> Num(5252), lon |-> Num(1341), label |-> InitialLabel,
     weather |-> Null, status |-> "idle", message |-> MsgStart,
     timers |-> {}, handle |-> NoHandle,
     fetching |-> EmptyBag, submits |-> EmptyBag,
     shownFor |-> <<>>, since |-> 0]

\* Variant of Cleanup: the pending timer is left to fire.
CleanupNothing(timers, handle) == timers

\* Line 252: the cleanup of the previous effect, clearTimeout(handle).
Cleanup(timers, handle) == timers \ {handle}

\* Lines 226-253: the effect, run at time t after a render that changed
\* lat, lon or locationLabel (and after the first render), the cleanup of
\* the effect before it first.
RunEffect(u, t) ==
    LET cleared == Cleanup(u.timers, u.handle)
        timer == [lat |-> u.lat, lon |-> u.lon, label |-> u.label, due |-> t + DEBOUNCE_MS]
    IN IF IsNaN(u.lat) \/ IsNaN(u.lon)
       THEN [u EXCEPT !.timers = cleared, !.handle = NoHandle, !.weather = Null,
                      !.status = "idle", !.message = MsgInvalidPlace, !.shownFor = <<>>]
       ELSE [u EXCEPT !.timers = cleared \cup {timer}, !.handle = timer,
                      !.status = "loading", !.message = MsgFetching, !.since = t]

\* Lines 269-270: the submit handler before its await.
Searching(u) == [u EXCEPT !.status = "loading", !.message = MsgSearching]

\* Lines 272-279: the submit handler after its await, with outcome e.  The
\* three setters are applied in one render; the effect runs when one of
\* lat, lon, locationLabel has changed.
SubmitOutcome(u, e, t) ==
    IF e.outcome = "value"
    THEN LET v == e.value
         IN IF <<v.lat, v.lon, v.label>> = <<u.lat, u.lon, u.label>>
            THEN u
            ELSE RunEffect([u EXCEPT !.lat = v.lat, !.lon = v.lon, !.label = v.label], t)
    ELSE [u EXCEPT !.status = "error", !.message = Message(e.error, Undef)]

\* Lines 239-249: the timer callback of closure c after its await, with
\* outcome e.
WeatherOutcome(u, c, e) ==
    IF e.outcome = "value"
    THEN [u EXCEPT !.weather = e.value, !.status = "success",
                   !.message = MsgShowing(c.label), !.shownFor = <<c.lat.v, c.lon.v>>]
    ELSE [u EXCEPT !.weather = Null, !.status = "error",
                   !.message = Message(e.error, Undef), !.shownFor = <<>>]

\* The states of the component after the step that ended in e: when e
\* settles a call, one callback that awaits a call of that key goes on.
Resumed(u, e, t) ==
    IF e.type # "return" THEN {u}
    ELSE IF e.op = "resolve"
    THEN {SubmitOutcome([u EXCEPT !.submits = @ (-) SetToBag({e.key})], e, t)}
    ELSE {WeatherOutcome([u EXCEPT !.fetching = @ (-) SetToBag({c})], c, e) :
             c \in {c \in BagToSet(u.fetching) : CoordKey(c.lat.v, c.lon.v) = e.key}}

UiInit ==
    /\ now = Now0
    /\ ticks = 0
    /\ focus = "ui"
    /\ storage = (StorageKey("weatherCache") :> RawNull) @@ (StorageKey("geocodeCache") :> RawNull)
    /\ weatherCache = <<>>
    /\ geocodeCache = <<>>
    /\ requestLog = <<>>
    /\ calls = EmptyBag
    /\ ev = Silent("init")
    /\ ui = RunEffect(FirstRender, Now0)

\* Lines 267-280: the form is submitted with the query typed.
onSubmit(query) ==
    /\ FetchCoordsCall(query)
    /\ ui' = IF ev'.type = "send"
             THEN [Searching(ui) EXCEPT !.submits = @ (+) SetToBag({ev'.key})]
             ELSE SubmitOutcome(Searching(ui), ev', now)

\* Lines 237-250: a debounce timer fires and calls fetchWeatherByCoords.
DebounceFires(timer) ==
    /\ timer \in ui.timers
    /\ now >= timer.due
    /\ FetchWeatherCall(timer.lat.v, timer.lon.v)
    /\ LET c == [lat |-> timer.lat, lon |-> timer.lon, label |-> timer.label]
           u == [ui EXCEPT !.timers = @ \ {timer}]
       IN ui' = IF ev'.type = "send"
                THEN [u EXCEPT !.fetching = @ (+) SetToBag({c})]
                ELSE WeatherOutcome(u, c, ev')

\* A step of a call in flight, and the callback it resumes.
Resume == ui' \in Resumed(ui, ev', now')

\* What the user types: nothing, or a place.
UiQueries == {<<>>, <<"p">>}

\* The component sees of a call its value or its error; the upstream
\* bodies that differ in more than that are left to the sessions of Next.
UiNext ==
    \/ \E d \in UiSteps : Tick(d) /\ UNCHANGED ui
    \/ \E query \in UiQueries : onSubmit(query)
    \/ \E timer \in ui.timers : DebounceFires(timer)
    \/ \E call \in InFlight : TimerFires(call) /\ Resume
    \/ \E call \in InFlight : FetchRejects(call) /\ Resume
    \/ \E call \in InFlight, ok \in BOOLEAN : FetchResolves(call, ok) /\ Resume
    \/ \E call \in InFlight : JsonRejects(call, "SyntaxError") /\ Resume
    \/ \E call \in InFlight : WeatherBody(call, WeatherReading, TRUE, 0) /\ Resume
    \/ \E call \in InFlight, data \in GeocodePayloads :
          GeocodeBody(call, data, TRUE) /\ Resume

UiSpec == UiInit /\ [][UiNext]_vars

----------------------------------------------------------------------------
(* Vocabulary of the properties.  These definitions restate the contract   *)
(* in its own terms (TTL, MIN_INTERVAL, the error kinds); they do not use  *)
(* the operators that model the code.                                      *)

TTL == 600000
MIN_INTERVAL == 15000
Ops == {"fetch", "resolve"}

\* The step that ends in e is a call of op (the part before the first
\* await): the request was sent, or the call settled without any request.
IsCall(e, op) == e.op = op /\ (e.type = "send" \/ (e.type = "return" /\ ~e.net))

\* The step that ends in e settled a call of op.
IsValue(e) == e.type = "return" /\ e.outcome = "value"
IsError(e) == e.type = "return" /\ e.outcome = "error"
IsRateLimited(e) == IsError(e) /\ ErrorKind(e.error) = "RateLimited"

\* The cache an operation works on.
CacheOf(op) == IF op = "fetch" THEN weatherCache ELSE geocodeCache

HasEntry(cache, key) == \E i \in DOMAIN cache : cache[i][1] = key
EntryOf(cache, key) == cache[CHOOSE i \in DOMAIN cache : cache[i][1] = key][2]
FreshEntry(cache, key) == HasEntry(cache, key) /\ now - EntryOf(cache, key).ts < TTL
StaleEntry(cache, key) == HasEntry(cache, key) /\ now - EntryOf(cache, key).ts >= TTL

\* now - ledger[K], the ledger read as 0 where it has no entry.
Elapsed(key) == now - (IF HasEntry(requestLog, key) THEN EntryOf(requestLog, key) ELSE 0)
LedgerRecent(key) == HasEntry(requestLog, key) /\ now - EntryOf(requestLog, key) < MIN_INTERVAL

\* Nothing but the outcome changed: no request sent, no cache, ledger or
\* storage write.
NothingWritten ==
    UNCHANGED <<now, weatherCache, requestLog, geocodeCache, storage, calls>>

----------------------------------------------------------------------------
(* C1 *)

\* C1: a call of resolve or fetch whose key has a fresh cache entry
\* (now - timestamp < TTL) returns exactly the cached value and sends no
\* network request.
C1_FreshEntryServedFromCache ==
    [][\A op \in Ops :
         (IsCall(ev', op) /\ FreshEntry(CacheOf(op), ev'.key))
         => /\ IsValue(ev')
            /\ ev'.value = EntryOf(CacheOf(op), ev'.key).data
            /\ ~ev'.net
            /\ NothingWritten]_vars

\* A resolve of " P " is served from the entry cached under "p".
C1_Witness ==
    /\ IsCall(ev, "resolve") /\ IsValue(ev)
    /\ ev.arg = <<" ", "P", " ">>
    /\ FreshEntry(geocodeCache, <<"p">>)
    /\ ev.value = EntryOf(geocodeCache, <<"p">>).data

----------------------------------------------------------------------------
(* C2 *)

\* C2: a fetch whose key has a fresh weather-cache entry is never rejected
\* with RateLimited, whatever the ledger holds for the key.
C2_CacheHitNeverRateLimited ==
    [][(IsCall(ev', "fetch") /\ FreshEntry(weatherCache, ev'.key))
         => ~IsRateLimited(ev')]_vars

\* A fetch served from the cache while the ledger entry of its key is less
\* than MIN_INTERVAL old.
C2_Witness ==
    /\ IsCall(ev, "fetch") /\ IsValue(ev)
    /\ FreshEntry(weatherCache, ev.key)
    /\ LedgerRecent(ev.key)

----------------------------------------------------------------------------
(* C3 *)

\* C3 as stated: a fetch for K less than MIN_INTERVAL after the successful
\* fetch the ledger records for K fails with RateLimited and sends no
\* request, whatever the weather cache holds.
C3_ThrottledRegardlessOfCache ==
    [][(IsCall(ev', "fetch") /\ LedgerRecent(ev'.key))
         => (IsRateLimited(ev') /\ ~ev'.net)]_vars

\* C3 amended: such a fetch sends no request; it fails with RateLimited when
\* the weather cache holds no fresh entry for K and returns the cached value
\* when it does.
C3_ThrottledUnlessCached ==
    [][(IsCall(ev', "fetch") /\ LedgerRecent(ev'.key))
         => /\ ~ev'.net
            /\ NothingWritten
            /\ IF FreshEntry(weatherCache, ev'.key)
               THEN IsValue(ev') /\ ev'.value = EntryOf(weatherCache, ev'.key).data
               ELSE IsRateLimited(ev')]_vars

\* A fetch rejected with RateLimited: the ledger entry is recent and the
\* cache entry of the key is stale.
C3_Witness ==
    /\ IsCall(ev, "fetch") /\ IsRateLimited(ev)
    /\ LedgerRecent(ev.key)
    /\ StaleEntry(weatherCache, ev.key)

----------------------------------------------------------------------------
(* C4 *)

\* The least number of whole seconds that covers ms milliseconds.
SecondsRoundedUp(ms) == CHOOSE w \in 0 .. 15 : w * 1000 >= ms /\ (w - 1) * 1000 < ms

\* C4: a fetch that misses the cache with elapsed = now - ledger[K] below
\* MIN_INTERVAL fails with RateLimited, its wait the remaining time rounded
\* up to whole seconds; it sends no request and writes nothing.
C4_RateLimitedCarriesWait ==
    [][(/\ IsCall(ev', "fetch")
        /\ ~FreshEntry(weatherCache, ev'.key)
        /\ Elapsed(ev'.key) < MIN_INTERVAL)
         => /\ IsRateLimited(ev')
            /\ ev'.wait = SecondsRoundedUp(MIN_INTERVAL - Elapsed(ev'.key))
            /\ ~ev'.net
            /\ NothingWritten]_vars

\* A fetch 2.5 s after the recorded one is told to wait 13 s.
C4_Witness ==
    /\ IsCall(ev, "fetch") /\ IsRateLimited(ev)
    /\ Elapsed(ev.key) = 2500
    /\ ev.wait = 13

----------------------------------------------------------------------------
(* C5 *)

\* C5: a cache entry of age TTL or more is never returned.  A call whose
\* key has such an entry goes on to the network: the request is sent, or
\* (for fetch) the ledger rejects the call.
C5_StaleEntryIsAMiss ==
    [][\A op \in Ops :
         (IsCall(ev', op) /\ StaleEntry(CacheOf(op), ev'.key))
         => \/ ev'.type = "send" /\ BagCardinality(calls') = BagCardinality(calls) + 1
            \/ op = "fetch" /\ IsRateLimited(ev')]_vars

\* A fetch sends its request though the cache holds an entry for its key,
\* of age exactly TTL.
C5_Witness ==
    /\ IsCall(ev, "fetch") /\ ev.type = "send"
    /\ HasEntry(weatherCache, ev.key)
    /\ now - EntryOf(weatherCache, ev.key).ts = TTL

----------------------------------------------------------------------------
(* C6 *)

\* The ledger differs from log only at key, where it holds time t.
OnlyEntrySet(after, log, key, t) ==
    /\ HasEntry(after, key) /\ EntryOf(after, key) = t
    /\ \A k \in {after[i][1] : i \in DOMAIN after} \cup {log[i][1] : i \in DOMAIN log} :
          k # key => /\ HasEntry(after, k) /\ HasEntry(log, k)
                     /\ EntryOf(after, k) = EntryOf(log, k)

\* C6: within a session the ledger changes only in the step in which a
\* network fetch for K succeeds, and only at K; a cache hit and every failed
\* fetch leave the ledger and both caches as they were.
C6_LedgerWrittenOnlyOnSuccess ==
    [][/\ (requestLog' # requestLog /\ ev'.type # "restart")
            => /\ IsValue(ev') /\ ev'.op = "fetch" /\ ev'.net
               /\ OnlyEntrySet(requestLog', requestLog, ev'.key, now')
       /\ (ev'.type = "return" /\ ~(IsValue(ev') /\ ev'.net))
            => UNCHANGED <<requestLog, weatherCache, geocodeCache>>]_vars

\* A fetch has just failed on the network, and the ledger does not throttle
\* a retry.
C6_Witness ==
    /\ IsError(ev) /\ ev.op = "fetch" /\ ev.net
    /\ ErrorKind(ev.error) \in {"Timeout", "NetworkError", "UpstreamError"}
    /\ Elapsed(ev.key) >= MIN_INTERVAL

----------------------------------------------------------------------------
(* C7 *)

\* C7: no call stays suspended forever: at each of its suspension points,
\* the request and the reading of the response body, a call in flight has
\* the 8 s deadline pending, due no later than 8 s from now.
C7_DeadlineCoversEverySuspension ==
    \A call \in InFlight :
        /\ call.armed
        /\ call.deadline <= now + 8000

----------------------------------------------------------------------------
(* C8 *)

TypedKinds == {"InvalidInput", "NotFound", "RateLimited", "Timeout", "NetworkError", "UpstreamError"}

\* C8: every error that reaches the caller of resolve or fetch is of one of
\* the typed kinds, and the step that raises it writes no cache.
C8_EveryFailureIsTyped ==
    [][IsError(ev')
         => /\ ErrorKind(ev'.error) \in TypedKinds
            /\ UNCHANGED <<weatherCache, geocodeCache, storage>>]_vars

----------------------------------------------------------------------------
(* C9 *)

\* The query is empty or all spaces.
Blank(query) == \A i \in DOMAIN query : query[i] = " "

\* C9: resolve of a query that is empty after trimming fails with
\* InvalidInput at once: no request is sent and neither the geocode cache
\* nor storage changes.
C9_BlankQueryIsInvalidInput ==
    [][(IsCall(ev', "resolve") /\ Blank(ev'.arg))
         => /\ IsError(ev')
            /\ ErrorKind(ev'.error) = "InvalidInput"
            /\ ~ev'.net
            /\ NothingWritten]_vars

\* resolve(" ") has just failed with InvalidInput.
C9_Witness ==
    /\ IsCall(ev, "resolve") /\ IsError(ev)
    /\ ev.arg = <<" ">>
    /\ ErrorKind(ev.error) = "InvalidInput"
    /\ ~ev.net

----------------------------------------------------------------------------
(* C10 *)

CacheNames == {"weatherCache", "geocodeCache"}

CacheNamed(name) == IF name = "weatherCache" THEN weatherCache ELSE geocodeCache

\* The [key, entry] items of the record persisted under name, when it is
\* readable as a list of such pairs.
PersistedItems(name) ==
    LET raw == storage[<<"v1", ":", name>>]
    IN IF raw.kind = "json" /\ raw.value.t = "array"
       THEN {raw.value.items[i].items : i \in DOMAIN raw.value.items}
       ELSE {}

JustLoaded == ev.type \in {"init", "restart"}

\* C10: right after load, no persisted entry of age 2 x TTL or more is in
\* the cache, and the cache holds no entry that old.
C10_OldEntriesDroppedOnLoad ==
    JustLoaded =>
        \A name \in CacheNames :
            /\ \A item \in PersistedItems(name) :
                  now - item[2].ts >= 2 * TTL => ~HasEntry(CacheNamed(name), item[1])
            /\ \A i \in DOMAIN CacheNamed(name) :
                  now - CacheNamed(name)[i][2].ts < 2 * TTL

\* The page is reloaded when the persisted weather entry is exactly
\* 2 x TTL old, and the loaded cache is empty.
C10_Witness ==
    /\ ev.type = "restart"
    /\ \E item \in PersistedItems("weatherCache") : now - item[2].ts = 2 * TTL
    /\ weatherCache = <<>>

----------------------------------------------------------------------------
(* C11 *)

\* The [key, entry] pairs of the record persisted under name, in order.
PersistedList(name) ==
    LET raw == storage[<<"v1", ":", name>>]
    IN IF raw.kind = "json" /\ raw.value.t = "array"
       THEN [i \in DOMAIN raw.value.items |-> raw.value.items[i].items]
       ELSE <<>>

Smaller(a, b) == IF a < b THEN a ELSE b

\* C11: after a save of a cache with n entries the persisted record holds
\* min(n, 12) entries of the cache, no key twice, most recent first, none
\* older than an entry left out; the cache itself is unchanged.
C11_SaveKeepsNewestTwelve ==
    [][ev'.type = "save"
         => LET saved == PersistedList("weatherCache")'
            IN /\ Len(saved) = Smaller(Len(weatherCache), 12)
               /\ \A i \in DOMAIN saved :
                     /\ HasEntry(weatherCache, saved[i][1])
                     /\ EntryOf(weatherCache, saved[i][1]).ts = saved[i][2].ts
               /\ \A i, j \in DOMAIN saved :
                     /\ (i # j => saved[i][1] # saved[j][1])
                     /\ (i < j => saved[i][2].ts >= saved[j][2].ts)
               /\ \A k \in DOMAIN weatherCache :
                     (\A i \in DOMAIN saved : saved[i][1] # weatherCache[k][1])
                     => \A i \in DOMAIN saved : saved[i][2].ts >= weatherCache[k][2].ts
               /\ weatherCache' = weatherCache]_vars

\* A cache of 14 entries, whose first is not its most recent, has just
\* been saved: 12 are in the record, and the first of the cache is not.
C11_Witness ==
    /\ ev.type = "save"
    /\ Len(weatherCache) = 14
    /\ Len(PersistedList("weatherCache")) = 12
    /\ \E k \in DOMAIN weatherCache : weatherCache[k][2].ts > weatherCache[1][2].ts
    /\ \A i \in DOMAIN PersistedList("weatherCache") :
          PersistedList("weatherCache")[i][1] # weatherCache[1][1]

----------------------------------------------------------------------------
(* C12 *)

\* What a failing localStorage write throws.
StorageErrors == {"QuotaExceededError", "SecurityError"}

\* The cache of op after the step.
CacheAfter(op) == IF op = "fetch" THEN weatherCache' ELSE geocodeCache'

\* C12: a failing persistence write never surfaces.  No call fails with a
\* storage error, and a call that the network answers with a value returns
\* that value, with the cache entry written at the current time and (for
\* fetch) the ledger entry written, whatever became of the storage record.
C12_WriteFailureIsSwallowed ==
    [][(ev'.type = "return" /\ ev'.net)
         => /\ IsError(ev') => ev'.error \notin StorageErrors
            /\ IsValue(ev')
                 => /\ HasEntry(CacheAfter(ev'.op), ev'.key)
                    /\ EntryOf(CacheAfter(ev'.op), ev'.key) = [data |-> ev'.value, ts |-> now]
                    /\ ev'.op = "fetch"
                         => /\ HasEntry(requestLog', ev'.key)
                            /\ EntryOf(requestLog', ev'.key) = now'
                    /\ ev'.op = "resolve" => requestLog' = requestLog]_vars

\* A fetch has returned the value it got from the network and the cache
\* holds it, though the record in storage does not: the write failed.
C12_Witness ==
    /\ IsValue(ev) /\ ev.net /\ ev.op = "fetch"
    /\ HasEntry(weatherCache, ev.key)
    /\ EntryOf(weatherCache, ev.key).data = ev.value
    /\ HasEntry(requestLog, ev.key)
    /\ \A item \in PersistedItems("weatherCache") :
          item[1] = ev.key => item[2].ts # EntryOf(weatherCache, ev.key).ts

----------------------------------------------------------------------------
(* C13 *)

IsList(x) == "t" \in DOMAIN x /\ x.t = "array"

\* The raw record is absent, is not JSON, or is JSON but not a list whose
\* elements are all lists themselves.
NotAListOfPairs(raw) ==
    \/ raw.kind # "json"
    \/ ~IsList(raw.value)
    \/ \E i \in DOMAIN raw.value.items : ~IsList(raw.value.items[i])

----------------------------------------------------------------------------
(* C14 *)

\* A call of op for key is suspended at its network request or body read.
Outstanding(op, key) == \E c \in BagToSet(calls) : c.op = op /\ c.key = key

\* C14: calls for the same key are not deduplicated.  A call that misses
\* the cache while another call for its key is in flight sends a request of
\* its own (the ledger, unwritten until a call completes, does not stop
\* it), and every call the network answers with a value writes its own
\* cache entry, over the entry an earlier call wrote for the key.
C14_NoDeduplication ==
    [][/\ \A op \in Ops :
            (/\ IsCall(ev', op)
             /\ Outstanding(op, ev'.key)
             /\ ~FreshEntry(CacheOf(op), ev'.key)
             /\ op = "fetch" => ~LedgerRecent(ev'.key))
            => /\ ev'.type = "send"
               /\ BagCardinality(calls') = BagCardinality(calls) + 1
               /\ UNCHANGED <<requestLog, weatherCache, geocodeCache>>
       /\ (IsValue(ev') /\ ev'.net /\ HasEntry(CacheOf(ev'.op), ev'.key))
            => EntryOf(CacheAfter(ev'.op), ev'.key) = [data |-> ev'.value, ts |-> now]]_vars

\* A second fetch for a key has just sent its request while the first is
\* still in flight.
C14_Witness ==
    /\ ev.type = "send" /\ ev.op = "fetch"
    /\ BagCardinality(calls) = 2
    /\ \A c \in BagToSet(calls) : c.op = "fetch" /\ c.key = ev.key

----------------------------------------------------------------------------
(* C15 *)

Capitals == ("P" :> "p") @@ ("B" :> "b")

Lowercase(c) == IF c \in DOMAIN Capitals THEN Capitals[c] ELSE c

\* lowercase(trim(q)): q from its first to its last character that is not
\* a space, in lower case.
NormalKey(q) ==
    LET inked == {i \in DOMAIN q : q[i] # " "}
    IN IF inked = {}
       THEN <<>>
       ELSE LET first == CHOOSE i \in inked : \A j \in inked : i <= j
                last == CHOOSE i \in inked : \A j \in inked : i >= j
            IN [i \in 1 .. (last - first + 1) |-> Lowercase(q[first + i - 1])]

\* C15: resolve(Q) is keyed by lowercase(trim(Q)).  Its request goes out
\* under that key, a successful answer is in the geocode cache under that
\* key when the call returns, and a resolve(Q') whose lowercase(trim(Q'))
\* has a fresh entry returns that entry's value without a request.
C15_ResolveKeyedByNormalizedQuery ==
    [][/\ (ev'.op = "resolve" /\ ev'.type = "send") => ev'.key = NormalKey(ev'.arg)
       /\ (ev'.op = "resolve" /\ IsValue(ev') /\ ev'.net)
            => /\ HasEntry(geocodeCache', ev'.key)
               /\ EntryOf(geocodeCache', ev'.key) = [data |-> ev'.value, ts |-> now]
       /\ (IsCall(ev', "resolve") /\ FreshEntry(geocodeCache, NormalKey(ev'.arg)))
            => /\ IsValue(ev')
               /\ ev'.value = EntryOf(geocodeCache, NormalKey(ev'.arg)).data
               /\ ~ev'.net
               /\ NothingWritten]_vars

\* resolve(" P ") is answered from the entry that an earlier resolve of
\* this session wrote under "p".
C15_Witness ==
    /\ IsCall(ev, "resolve") /\ IsValue(ev) /\ ~ev.net
    /\ ev.arg = <<" ", "P", " ">>
    /\ HasEntry(geocodeCache, <<"p">>)
    /\ EntryOf(geocodeCache, <<"p">>).ts >= Now0
    /\ ev.value = EntryOf(geocodeCache, <<"p">>).data

----------------------------------------------------------------------------
(* C16 *)

\* The codes of the fixed table.
KnownCodes ==
    {0, 1, 2, 3, 45, 48, 51, 53, 55, 56, 57, 61, 63, 65, 66, 67,
     71, 73, 75, 77, 80, 81, 82, 85, 86, 95, 96, 99}

\* C16: translate answers every integer code with a label: "-" exactly for
\* the codes that are not in the table, "Clear sky" for 0 and
\* "Thunderstorm" for 95; it changes neither cache, ledger nor storage.
C16_TranslateIsTotal ==
    [][(ev'.op = "translate" /\ ev'.type = "return")
         => /\ ev'.arg = ev.arg
            /\ ev'.value.t = "str"
            /\ (ev'.arg[1] \notin KnownCodes) <=> (ev'.value.v = "-")
            /\ ev'.arg[1] = 0 => ev'.value.v = "Clear sky"
            /\ ev'.arg[1] = 95 => ev'.value.v = "Thunderstorm"
            /\ UNCHANGED <<weatherCache, requestLog, geocodeCache, storage, calls>>]_vars

\* Code 0, the first of the table, has been translated to "Clear sky"
\* while the cache and the ledger hold an entry.
C16_Witness ==
    /\ ev.op = "translate" /\ ev.type = "return"
    /\ ev.arg = <<0>>
    /\ ev.value.v = "Clear sky"
    /\ weatherCache # <<>> /\ requestLog # <<>>

----------------------------------------------------------------------------
(* C18 *)

\* C18 as stated: fetchWeatherByCoords never fails with the rate-limit
\* error.
C18_NeverRateLimited ==
    [][IsCall(ev', "fetch") => ~IsRateLimited(ev')]_vars

\* How far the ledger time of key lies after the timestamp of its cache
\* entry: the time between the two clock reads of the step that wrote both.
ClockGap(key) == EntryOf(requestLog, key) - EntryOf(weatherCache, key).ts

\* C18 amended: fetchWeatherByCoords fails with the rate-limit error only
\* for a key whose ledger time lies more than TTL - MIN_INTERVAL after the
\* timestamp of its cache entry; short of such a gap, a ledger entry
\* younger than MIN_INTERVAL comes with a fresh cache entry.
C18_RateLimitedOnlyAfterClockGap ==
    [][(IsCall(ev', "fetch") /\ IsRateLimited(ev'))
         => /\ HasEntry(requestLog, ev'.key)
            /\ HasEntry(weatherCache, ev'.key)
            /\ ClockGap(ev'.key) > TTL - MIN_INTERVAL]_vars

\* A fetch is rejected with the rate-limit error in a run that began with
\* an empty ledger: the two clock reads of the earlier success were more
\* than TTL - MIN_INTERVAL apart.
C18_Witness ==
    /\ IsCall(ev, "fetch") /\ IsRateLimited(ev)
    /\ HasEntry(requestLog, ev.key) /\ HasEntry(weatherCache, ev.key)
    /\ ClockGap(ev.key) > TTL - MIN_INTERVAL
    /\ ev.wait > 0

----------------------------------------------------------------------------
(* C17 *)

\* C17: the weather fetch is debounced.  At most one debounce timer is
\* pending; a call of fetchWeatherByCoords is started no sooner than 450 ms
\* after the last change of the coordinates or the label, it is for the
\* coordinates of that last change, and it leaves no timer pending.
C17_DebounceStartsOneFetch ==
    [][/\ Cardinality(ui'.timers) <= 1
       /\ IsCall(ev', "fetch")
            => /\ ev'.key = <<ui.lat.v, ui.lon.v>>
               /\ now - ui.since >= 450
               /\ ui'.timers = {}
               /\ <<ui'.lat, ui'.lon, ui'.label>> = <<ui.lat, ui.lon, ui.label>>]_vars

\* 450 ms after the page was loaded, the first call of fetchWeatherByCoords
\* is started, and it is for Paris: the search changed the coordinates
\* while the timer of the initial coordinates was pending, and that timer
\* was cancelled.
C17_Witness ==
    /\ IsCall(ev, "fetch")
    /\ ev.key = <<4885, 235>>
    /\ <<ui.lat.v, ui.lon.v>> = <<4885, 235>>
    /\ now = Now0 + 450
    /\ ui.since = Now0
    /\ ui.timers = {}
    /\ BagCardinality(ui.fetching) = 1
    /\ weatherCache = <<>>

----------------------------------------------------------------------------
(* C19 *)

\* C19: the status does not stay "loading".  While it is "loading" a
\* callback that will set it is pending: a debounce timer, an effect
\* callback awaiting fetchWeatherByCoords, or a submit handler awaiting
\* fetchCoordsByName.
C19_LoadingHasPendingWork ==
    (ui.mounted /\ ui.status = "loading")
        => \/ ui.timers # {}
           \/ ui.fetching # EmptyBag
           \/ ui.submits # EmptyBag

----------------------------------------------------------------------------
(* C20 *)

\* C20: whenever the status is "success", the weather on display was
\* fetched for the current coordinates.
C20_SuccessShowsCurrentCoords ==
    (ui.mounted /\ ui.status = "success")
        => ui.shownFor = <<ui.lat.v, ui.lon.v>>

====
